---- MODULE Spec2Model ----
(***************************************************************************)
(* Model of the PERM processing-time backend (kiiskristo/perm-backend).    *)
(*                                                                         *)
(* The state is the relational store the handlers work on (the aggregate   *)
(* tables processing_times, summary_stats, weekly_summary, monthly_status  *)
(* and the audit table prediction_requests), the calendar date, and the    *)
(* last call of POST /predictions/from-date with its response; then the    *)
(* worker processes that serve that endpoint side by side, the tables and  *)
(* the last result of PredictionService, the last answers of GET           *)
(* /predictions/requests/{id} and of the dashboard accessors, the rate     *)
(* limiter with the threads inside is_rate_limited, and the dashboard      *)
(* cache.                                                                  *)
(*                                                                         *)
(* Conventions                                                             *)
(*  - a date is its proleptic Gregorian ordinal (datetime.date.toordinal); *)
(*  - a string read character by character is a sequence of code points;   *)
(*  - a Python float is an exact rational <<numerator, denominator>> with  *)
(*    a positive denominator: the model abstracts the rounding of IEEE     *)
(*    doubles, int() is truncation toward zero of the exact value;         *)
(*  - a nullable column or an optional row is a set with at most one       *)
(*    element ({} is NULL / no row);                                       *)
(*  - time.time() and datetime.now() are whole seconds on one clock.       *)
(***************************************************************************)
EXTENDS Integers, Sequences, FiniteSets, TLC

VARIABLES
    today,                \* date.today()
    processing_times,     \* rows [record_date, percentile_50, percentile_80]
    summary_stats,        \* rows [record_date, pending_applications]
    weekly_summary,       \* rows [week_start, total_applications]
    monthly_status,       \* rows [year, month, status, count]
    prediction_requests,  \* the audit table, a sequence indexed by the SERIAL id
    call,                 \* the last call handled, with its response ({} before it)
    previous,             \* the request and the locals of the call before it, if it returned
    served,               \* the number of calls handled
    proc,                 \* per worker process: the call of /from-date it is handling
    prediction_model,     \* rows [model_date, base_processing_time, backlog_factor, seasonal_factors]
    case_backlog,         \* the number of CaseData rows with processed_date NULL
    simple,               \* the last CasePrediction of predict_from_date ({} before it)
    lookup,               \* the last response of GET /predictions/requests/{id}
    accessor,             \* the last call of a dashboard accessor, with its outcome
    clock,                \* time.time() and datetime.now(), in seconds
    requests,             \* rate_limiter.requests[ip][endpoint], a deque of timestamps
    thread,               \* per thread: its position inside is_rate_limited
    admitted,             \* per ip and endpoint: the request times of the requests let through
    blocked,              \* the block_ip calls logged: [ip, duration, at]
    checked,              \* the number of is_rate_limited calls begun
    limited,              \* what the last finished is_rate_limited call answered
    dashboard_cache,      \* cache_key -> cached result
    last_cache_reset,     \* endpoint -> time of the last reset
    dashboard             \* the last response of GET /data/dashboard or POST /data/clear-cache

\* the aggregate tables and the date
storeVars ==
    <<today, processing_times, summary_stats, weekly_summary, monthly_status>>

\* the calls handled one after the other
callVars == <<call, previous, served>>

\* PredictionService
serviceVars == <<prediction_model, case_backlog, simple>>

\* the rate limiter and the clock
limiterVars == <<clock, requests, thread, admitted, blocked, checked, limited>>

\* the dashboard cache
cacheVars == <<dashboard_cache, last_cache_reset, dashboard>>

\* all that the prediction endpoint works on
predictionVars == <<storeVars, prediction_requests, callVars, proc>>

\* all that the prediction endpoint leaves alone
restVars == <<serviceVars, lookup, accessor, limiterVars, cacheVars>>

vars == <<predictionVars, restVars>>

----------------------------------------------------------------------------
(* Bounds of the model *)

\* complete weeks the weekly_summary view may hold before the current week
MaxWeeks == 5

\* calls of the prediction endpoint in one behaviour
MaxCalls == 1

\* calls of the prediction endpoint in one behaviour of repeated requests
MaxRepeats == 2

\* worker processes that serve the prediction endpoint side by side
MaxWorkers == 2

\* threads of the pool that run check_rate_limit side by side
MaxThreads == 2

\* the calls of is_rate_limited the model follows
MaxRequests == 3

\* the last second the model follows
MaxClock == 61

\* the last second the model follows the dashboard cache to
MaxCacheClock == 7202

----------------------------------------------------------------------------
(* Program constants *)

DEFAULT_WEEKLY_RATE == 2900

DEFAULT_MEDIAN_DAYS == 150

DEFAULT_UPPER_DAYS == 300

WEEKLY_LIMIT == 4

\* self.limits: requests per window, and the window in seconds
SEARCH_LIMIT == 10

CASES_LIMIT == 5

WINDOW == 60

\* block_ip: the number of fake requests, and the default duration
FAKE_REQUESTS == 1000

DEFAULT_BLOCK_DURATION == 3600

\* the age in seconds after which the dashboard cache is reset
CACHE_TIMEOUT == 3600

DEFAULT_BASE_TIME == 30

----------------------------------------------------------------------------
(* datetime.date *)

IsLeap(y) == (y % 4 = 0) /\ ((y % 100 # 0) \/ (y % 400 = 0))

DaysInMonth(y, m) ==
    IF m = 2 THEN (IF IsLeap(y) THEN 29 ELSE 28)
    ELSE IF m \in {4, 6, 9, 11} THEN 30 ELSE 31

DaysBeforeYear(y) ==
    (y - 1) * 365 + ((y - 1) \div 4) - ((y - 1) \div 100) + ((y - 1) \div 400)

RECURSIVE DaysBeforeMonth(_, _)
DaysBeforeMonth(y, m) ==
    IF m = 1 THEN 0 ELSE DaysBeforeMonth(y, m - 1) + DaysInMonth(y, m - 1)

\* date(y, m, d).toordinal()
Ymd(y, m, d) == DaysBeforeYear(y) + DaysBeforeMonth(y, m) + d

Years == 2022..2026

\* date.year
YearOf(date) ==
    CHOOSE y \in Years : DaysBeforeYear(y) < date /\ date <= DaysBeforeYear(y + 1)

\* date.month
MonthOf(date) ==
    LET y == YearOf(date)
    IN  CHOOSE m \in 1..12 :
            /\ Ymd(y, m, 1) <= date
            /\ date < Ymd(y, m, 1) + DaysInMonth(y, m)

\* date.day
DayOf(date) == date - Ymd(YearOf(date), MonthOf(date), 1) + 1

\* date.weekday(): Monday is 0
Weekday(date) == (date + 6) % 7

MonthNames ==
    <<"January", "February", "March", "April", "May", "June", "July",
      "August", "September", "October", "November", "December">>

\* date.strftime("%B")
MonthNameOf(date) == MonthNames[MonthOf(date)]

----------------------------------------------------------------------------
(* float arithmetic, exact *)

Abs(n) == IF n < 0 THEN -n ELSE n

RECURSIVE Gcd(_, _)
Gcd(a, b) == IF b = 0 THEN a ELSE Gcd(b, a % b)

\* n / d for d > 0, in lowest terms
Rat(n, d) ==
    LET g == Gcd(Abs(n), d)
    IN  <<n \div g, d \div g>>

RAdd(a, b) == Rat(a[1] * b[2] + b[1] * a[2], a[2] * b[2])

RMul(a, b) == Rat(a[1] * b[1], a[2] * b[2])

\* a / b for b > 0
RDiv(a, b) == Rat(a[1] * b[2], a[2] * b[1])

RPos(a) == a[1] > 0

\* int(x): truncation toward zero
IntOf(a) == IF a[1] >= 0 THEN a[1] \div a[2] ELSE -((-a[1]) \div a[2])

----------------------------------------------------------------------------
(* str *)

\* str.upper() of one ASCII character
UpperChar(c) == IF c \in 97..122 THEN c - 32 ELSE c

\* str.upper()
Upper(s) == [i \in 1..Len(s) |-> UpperChar(s[i])]

\* ord('A')
OrdA == 65

----------------------------------------------------------------------------
(* SQL aggregates *)

RECURSIVE SumOver(_, _)
\* SUM(column) of a non-empty set of rows
SumOver(rows, col) ==
    IF rows = {} THEN 0
    ELSE LET r == CHOOSE x \in rows : TRUE
         IN  r[col] + SumOver(rows \ {r}, col)

\* SELECT ... FROM processing_times ORDER BY record_date DESC LIMIT 1; fetchone()
LatestProcessingRow ==
    {r \in processing_times :
        \A q \in processing_times : q.record_date <= r.record_date}

\* SELECT pending_applications FROM summary_stats ORDER BY record_date DESC LIMIT 1
LatestSummaryRow ==
    {r \in summary_stats : \A q \in summary_stats : q.record_date <= r.record_date}

\* today - timedelta(days=today.weekday())
CurrentWeekStart(now) == now - Weekday(now)

\* a variant whose WHERE clause keeps the current week (<= for <)
RecentWeeks_WithCurrentWeek(current_week_start) ==
    LET complete == {r \in weekly_summary : r.week_start <= current_week_start}
    IN  {r \in complete :
            Cardinality({q \in complete : q.week_start > r.week_start}) < WEEKLY_LIMIT}

\* the subquery: WHERE week_start < %s ORDER BY week_start DESC LIMIT 4
RecentWeeks(current_week_start) ==
    LET complete == {r \in weekly_summary : r.week_start < current_week_start}
    IN  {r \in complete :
            Cardinality({q \in complete : q.week_start > r.week_start}) < WEEKLY_LIMIT}

\* SELECT AVG(total_applications): NULL over no rows
AvgWeeklyApps(current_week_start) ==
    LET rows == RecentWeeks(current_week_start)
    IN  IF rows = {} THEN {}
        ELSE {Rat(SumOver(rows, "total_applications"), Cardinality(rows))}

\* the month_to_num dictionary, .get(name, 0)
MonthToNum(name) ==
    IF \E i \in 1..12 : MonthNames[i] = name
    THEN CHOOSE i \in 1..12 : MonthNames[i] = name
    ELSE 0

\* the CASE expression of the query: NULL for a name that is no month
SqlMonthCase(name) == {i \in 1..12 : MonthNames[i] = name}

\* a variant whose month comparison is reversed (> for <)
RowsBeforeMonth_LaterMonths(submit_year, submit_month_num) ==
    {r \in monthly_status :
        /\ r.status = "ANALYST REVIEW"
        /\ \/ r.year < submit_year
           \/ /\ r.year = submit_year
              /\ \E n \in SqlMonthCase(r.month) : n > submit_month_num}

\* a variant that counts the month of the submission too (<= for <)
RowsBeforeMonth_WithSubmitMonth(submit_year, submit_month_num) ==
    {r \in monthly_status :
        /\ r.status = "ANALYST REVIEW"
        /\ \/ r.year < submit_year
           \/ /\ r.year = submit_year
              /\ \E n \in SqlMonthCase(r.month) : n <= submit_month_num}

\* the rows of SELECT SUM(count) ... WHERE status = 'ANALYST REVIEW' AND (...)
RowsBeforeMonth(submit_year, submit_month_num) ==
    {r \in monthly_status :
        /\ r.status = "ANALYST REVIEW"
        /\ \/ r.year < submit_year
           \/ /\ r.year = submit_year
              /\ \E n \in SqlMonthCase(r.month) : n < submit_month_num}

\* SELECT SUM(count) as cases_ahead: NULL over no rows
CasesAhead(submit_year, submit_month_num) ==
    LET rows == RowsBeforeMonth(submit_year, submit_month_num)
    IN  IF rows = {} THEN {} ELSE {SumOver(rows, "count")}

\* SELECT count ... WHERE status = 'ANALYST REVIEW' AND year = %s AND month = %s
SameMonthRow(submit_year, submit_month_name) ==
    {r \in monthly_status :
        /\ r.status = "ANALYST REVIEW"
        /\ r.year = submit_year
        /\ r.month = submit_month_name}

----------------------------------------------------------------------------
(* predict_from_submit_date: the computation *)

\* float(row['avg_weekly_apps']) if weekly_row and row['avg_weekly_apps'] else 2900
WeeklyRate(now) ==
    LET avg == AvgWeeklyApps(CurrentWeekStart(now))
    IN  IF avg # {} /\ (CHOOSE a \in avg : TRUE)[1] # 0
        THEN CHOOSE a \in avg : TRUE
        ELSE Rat(DEFAULT_WEEKLY_RATE, 1)

\* float(backlog_row['pending_applications']) if backlog_row and ... else 0
CurrentBacklog ==
    IF LatestSummaryRow # {}
    THEN (CHOOSE r \in LatestSummaryRow : TRUE).pending_applications
    ELSE 0

\* float(processing_row['median_days']) if processing_row and ... else 150
BaseDays(processing_row) ==
    IF processing_row # {} /\ (CHOOSE r \in processing_row : TRUE).percentile_50 # 0
    THEN (CHOOSE r \in processing_row : TRUE).percentile_50
    ELSE DEFAULT_MEDIAN_DAYS

\* float(processing_row['upper_estimate_days']) if processing_row and ... else 300
UpperBaseDays(processing_row) ==
    IF processing_row # {} /\ (CHOOSE r \in processing_row : TRUE).percentile_80 # 0
    THEN (CHOOSE r \in processing_row : TRUE).percentile_80
    ELSE DEFAULT_UPPER_DAYS

\* max(0, (today - submit_date).days)
DaysInQueue(submit_date, now) ==
    IF now - submit_date > 0 THEN now - submit_date ELSE 0

\* float(row['cases_ahead']) if row and row['cases_ahead'] else 0
CasesBeforeMonth(submit_date) ==
    LET cases_ahead ==
            CasesAhead(YearOf(submit_date), MonthToNum(MonthNameOf(submit_date)))
    IN  IF cases_ahead # {} THEN CHOOSE c \in cases_ahead : TRUE ELSE 0

\* float(same_month_row['count']) if same_month_row and ... else 0
SameMonthTotal(submit_date) ==
    LET same_month_row ==
            SameMonthRow(YearOf(submit_date), MonthNameOf(submit_date))
    IN  IF same_month_row # {}
        THEN (CHOOSE r \in same_month_row : TRUE).count
        ELSE 0

\* a variant that counts the letters from 'Z'
LetterPosition_FromZ(employer_letter) == OrdA + 25 - employer_letter[1]

\* ord(employer_letter) - ord('A')
LetterPosition(employer_letter) == employer_letter[1] - OrdA

\* a variant with the two weights exchanged
MonthPositionFactor_SwappedWeights(letter_position, day) ==
    LET letter_percentage == Rat(letter_position, 25)
        day_percentage == Rat(day - 1, 30)
    IN  RAdd(RMul(letter_percentage, Rat(2, 10)), RMul(day_percentage, Rat(8, 10)))

\* (letter_percentage * 0.8) + (day_percentage * 0.2)
MonthPositionFactor(letter_position, day) ==
    LET letter_percentage == Rat(letter_position, 25)
        day_percentage == Rat(day - 1, 30)
    IN  RAdd(RMul(letter_percentage, Rat(8, 10)), RMul(day_percentage, Rat(2, 10)))

\* cases_before_month + same_month_total * month_position_factor
RawQueuePosition(submit_date, employer_letter) ==
    LET month_position_factor ==
            MonthPositionFactor(LetterPosition(employer_letter), DayOf(submit_date))
        same_month_cases ==
            RMul(Rat(SameMonthTotal(submit_date), 1), month_position_factor)
    IN  RAdd(Rat(CasesBeforeMonth(submit_date), 1), same_month_cases)

\* adjusted_queue_position / weekly_rate if weekly_rate > 0 else 0
QueueWeeks(adjusted_queue_position, weekly_rate) ==
    IF RPos(weekly_rate) THEN RDiv(adjusted_queue_position, weekly_rate)
    ELSE Rat(0, 1)

\* int(queue_weeks * 7)
QueueDays(queue_weeks) == IntOf(RMul(queue_weeks, Rat(7, 1)))

\* a variant that subtracts the days already waited
RemainingDays_SubtractElapsed(queue_days, days_in_queue) ==
    queue_days - days_in_queue

\* a variant that subtracts the days already waited and clamps at 0
RemainingDays_ClampedSubtract(queue_days, days_in_queue) ==
    IF queue_days - days_in_queue > 0 THEN queue_days - days_in_queue ELSE 0

\* remaining_days = queue_days
RemainingDays(queue_days, days_in_queue) == queue_days

\* a variant whose margin is the ratio of the two percentiles
WithMargin_FromPercentiles(x) ==
    IntOf(Rat(x * UpperBaseDays(LatestProcessingRow), BaseDays(LatestProcessingRow)))

\* int(x * 1.15)
WithMargin(x) == IntOf(Rat(x * 115, 100))

\* a variant whose first boundary is one letter late (<= 9 for < 9)
LetterPriority_NineIsHigh(letter_position) ==
    IF letter_position <= 9 THEN "HIGH"
    ELSE IF letter_position < 18 THEN "MEDIUM" ELSE "LOW"

\* "HIGH" if letter_position < 9 else "MEDIUM" if letter_position < 18 else "LOW"
LetterPriority(letter_position) ==
    IF letter_position < 9 THEN "HIGH"
    ELSE IF letter_position < 18 THEN "MEDIUM" ELSE "LOW"

\* "FASTER" if letter_position < 9 else "AVERAGE" if ... < 18 else "SLOWER"
LetterImpact(letter_position) ==
    IF letter_position < 9 THEN "FASTER"
    ELSE IF letter_position < 18 THEN "AVERAGE" ELSE "SLOWER"

\* the local variables of the handler once every query has answered
Locals(submit_date, employer_letter, now) ==
    LET weekly_rate == WeeklyRate(now)
        days_in_queue == DaysInQueue(submit_date, now)
        raw_queue_position == RawQueuePosition(submit_date, employer_letter)
        queue_weeks == QueueWeeks(raw_queue_position, weekly_rate)
        queue_days == QueueDays(queue_weeks)
        remaining_days == RemainingDays(queue_days, days_in_queue)
        total_journey_days == days_in_queue + remaining_days
    IN  [current_backlog |-> CurrentBacklog,
         weekly_rate |-> weekly_rate,
         base_days |-> BaseDays(LatestProcessingRow),
         upper_base_days |-> UpperBaseDays(LatestProcessingRow),
         days_in_queue |-> days_in_queue,
         cases_before_month |-> CasesBeforeMonth(submit_date),
         same_month_total |-> SameMonthTotal(submit_date),
         letter_position |-> LetterPosition(employer_letter),
         raw_queue_position |-> raw_queue_position,
         queue_weeks |-> queue_weeks,
         queue_days |-> queue_days,
         remaining_days |-> remaining_days,
         total_journey_days |-> total_journey_days,
         estimated_completion_date |-> now + remaining_days,
         upper_bound_date |-> now + WithMargin(remaining_days),
         letter_priority |-> LetterPriority(LetterPosition(employer_letter)),
         letter_impact |-> LetterImpact(LetterPosition(employer_letter))]

\* the dictionary the handler returns
ResponseBody(request_id, req, employer_letter, loc) ==
    [request_id |-> request_id,
     submit_date |-> req.submit_date,
     employer_first_letter |-> employer_letter,
     case_number |-> req.case_number,
     estimated_completion_date |-> loc.estimated_completion_date,
     upper_bound_date |-> loc.upper_bound_date,
     estimated_days |-> loc.total_journey_days,
     remaining_days |-> loc.remaining_days,
     upper_bound_days |-> WithMargin(loc.total_journey_days),
     current_backlog |-> loc.current_backlog,
     raw_queue_position |-> IntOf(loc.raw_queue_position),
     weekly_processing_rate |-> IntOf(loc.weekly_rate),
     days_already_in_queue |-> loc.days_in_queue,
     letter_priority |-> loc.letter_priority,
     processing_impact |-> loc.letter_impact,
     confidence_level |-> Rat(8, 10)]

----------------------------------------------------------------------------
(* predict_from_submit_date: the handler *)

\* the cursor.execute calls of the handler, in program order
Statements ==
    <<"create_table", "insert", "processing_times", "summary_stats",
      "weekly_summary", "cases_ahead", "same_month", "update">>

StatementIndex(stmt) == CHOOSE i \in 1..Len(Statements) : Statements[i] = stmt

\* the statement ran and did not raise, given the statement that raises
Ran(stmt, fail) ==
    IF fail = "none" THEN TRUE ELSE StatementIndex(stmt) < StatementIndex(fail)

\* DateSubmissionRequest: employer_first_letter has min_length=1, max_length=1
ValidRequest(req) == Len(req.employer_first_letter) = 1

\* if not processing_row: raise HTTPException(status_code=404, ...)
MissingProcessingRow(fail) ==
    Ran("processing_times", fail) /\ LatestProcessingRow = {}

\* the handler reaches its return statement
Completes(fail) == fail = "none" /\ ~MissingProcessingRow(fail)

\* the statement that raises is one the handler executes
Executes(req, recaptcha_ok, fail) ==
    IF fail = "none" THEN TRUE
    ELSE /\ ValidRequest(req)
         /\ recaptcha_ok
         /\ IF LatestProcessingRow # {} THEN TRUE
            ELSE StatementIndex(fail) <= StatementIndex("processing_times")

\* the row of INSERT INTO prediction_requests ..., result columns NULL
InsertedRow(request_id, req, employer_letter, now) ==
    [id |-> request_id,
     submit_date |-> req.submit_date,
     employer_first_letter |-> employer_letter,
     case_number |-> req.case_number,
     request_timestamp |-> now,
     estimated_completion_date |-> {},
     estimated_days |-> {},
     confidence_level |-> {}]

\* UPDATE prediction_requests SET ... WHERE id = %s
UpdatedRow(row, loc) ==
    [row EXCEPT !.estimated_completion_date = {loc.estimated_completion_date},
                !.estimated_days = {loc.total_journey_days},
                !.confidence_level = {Rat(8, 10)}]

\* the local variables when the handler returns its dictionary
\* a handler that verifies the token after its first two statements
StatementsIssued_BeforeVerify(req, recaptcha_ok, fail) ==
    IF ~ValidRequest(req) THEN <<>>
    ELSE SubSeq(Statements, 1, StatementIndex("insert"))

\* the cursor.execute calls the handler issues, the one that raises included:
\* none when verify_recaptcha returns False (the raise of line 41 comes
\* before the first statement), up to the statement that raises, up to the
\* processing_times read when it finds no row, all of them otherwise
StatementsIssued(req, recaptcha_ok, fail) ==
    IF ~(ValidRequest(req) /\ recaptcha_ok) THEN <<>>
    ELSE IF fail # "none" THEN SubSeq(Statements, 1, StatementIndex(fail))
    ELSE IF LatestProcessingRow = {}
    THEN SubSeq(Statements, 1, StatementIndex("processing_times"))
    ELSE Statements

LocalsAtReturn(req, recaptcha_ok, fail, now) ==
    IF ValidRequest(req) /\ recaptcha_ok /\ Completes(fail)
    THEN {Locals(req.submit_date, Upper(req.employer_first_letter), now)}
    ELSE {}

\* the HTTP response of the call
Response(req, recaptcha_ok, fail, request_id, now) ==
    IF ~ValidRequest(req)
    THEN [status |-> 422, detail |-> "validation error", body |-> {}]
    ELSE IF ~recaptcha_ok
    THEN [status |-> 400, detail |-> "Invalid reCAPTCHA. Please try again.",
          body |-> {}]
    ELSE IF fail # "none"
    THEN [status |-> 500,
          detail |-> "Error predicting completion date: database error",
          body |-> {}]
    ELSE IF MissingProcessingRow(fail)
    THEN [status |-> 500,
          detail |-> "Error predicting completion date: 404: No processing time data available",
          body |-> {}]
    ELSE LET employer_letter == Upper(req.employer_first_letter)
         IN  [status |-> 200,
              detail |-> "",
              body |-> {ResponseBody(request_id, req, employer_letter,
                           Locals(req.submit_date, employer_letter, now))}]

\* a variant whose UPDATE has no WHERE clause
AuditAfter_UpdateEveryRow(req, recaptcha_ok, fail, now) ==
    LET request_id == Len(prediction_requests) + 1
        employer_letter == Upper(req.employer_first_letter)
        row == InsertedRow(request_id, req, employer_letter, now)
        inserted == Append(prediction_requests, row)
    IN  IF ~(ValidRequest(req) /\ recaptcha_ok /\ Ran("insert", fail))
        THEN prediction_requests
        ELSE IF Completes(fail)
        THEN [i \in 1..Len(inserted) |->
                 UpdatedRow(inserted[i],
                            Locals(req.submit_date, employer_letter, now))]
        ELSE inserted

\* the audit table after the call (the connection is in autocommit mode)
AuditAfter(req, recaptcha_ok, fail, now) ==
    LET request_id == Len(prediction_requests) + 1
        employer_letter == Upper(req.employer_first_letter)
        row == InsertedRow(request_id, req, employer_letter, now)
    IN  IF ~(ValidRequest(req) /\ recaptcha_ok /\ Ran("insert", fail))
        THEN prediction_requests
        ELSE IF Completes(fail)
        THEN Append(prediction_requests,
                    UpdatedRow(row, Locals(req.submit_date, employer_letter, now)))
        ELSE Append(prediction_requests, row)

\* predict_from_submit_date, from the request to the response
PredictFromSubmitDate(req, recaptcha_ok, fail) ==
    /\ Executes(req, recaptcha_ok, fail)
    /\ served' = served + 1
    /\ previous' = UNION {{[req |-> c.req, locals |-> l] : l \in c.locals} : c \in call}
    /\ call' = {[req |-> req,
                 recaptcha_ok |-> recaptcha_ok,
                 fail |-> fail,
                 statements |-> StatementsIssued(req, recaptcha_ok, fail),
                 locals |-> LocalsAtReturn(req, recaptcha_ok, fail, today),
                 response |-> Response(req, recaptcha_ok, fail,
                                       Len(prediction_requests) + 1, today)]}
    /\ prediction_requests' = AuditAfter(req, recaptcha_ok, fail, today)
    /\ UNCHANGED <<storeVars, proc, restVars>>

\* POST /predictions/from-date
Predict(req, recaptcha_ok, fail) ==
    /\ served < MaxCalls
    /\ PredictFromSubmitDate(req, recaptcha_ok, fail)

----------------------------------------------------------------------------
(* predict_from_submit_date in several worker processes, statement by
   statement: every process has its own connection in autocommit mode *)

Workers == 1..MaxWorkers

\* a worker that handles no call
IdleWorker ==
    [pc |-> "idle", req |-> {}, request_id |-> 0, locals |-> {}, response |-> {}]

\* the request a worker is handling
RequestOf(w) == CHOOSE req \in proc[w].req : TRUE

\* a variant whose UPDATE goes to the latest row of the table
UpdateTarget_LatestRow(w) == Len(prediction_requests)

\* WHERE id = %s, with the request_id of the call's own INSERT
UpdateTarget(w) == proc[w].request_id

\* reCAPTCHA passed; CREATE TABLE IF NOT EXISTS; INSERT ... RETURNING id
WorkerInsert(w, req) ==
    /\ proc[w].pc = "idle"
    /\ ValidRequest(req)
    /\ LET request_id == Len(prediction_requests) + 1
       IN  /\ prediction_requests' =
                  Append(prediction_requests,
                         InsertedRow(request_id, req,
                                     Upper(req.employer_first_letter), today))
           /\ proc' = [proc EXCEPT ![w] =
                  [pc |-> "inserted", req |-> {req}, request_id |-> request_id,
                   locals |-> {}, response |-> {}]]
    /\ UNCHANGED <<storeVars, callVars, restVars>>

\* the five SELECTs and the arithmetic; no processing_times row raises
WorkerRead(w) ==
    /\ proc[w].pc = "inserted"
    /\ LET req == RequestOf(w)
       IN  proc' = [proc EXCEPT ![w] =
               IF LatestProcessingRow = {}
               THEN [@ EXCEPT !.pc = "done",
                              !.response = {Response(req, TRUE, "none",
                                                     proc[w].request_id, today)}]
               ELSE [@ EXCEPT !.pc = "read",
                              !.locals = {Locals(req.submit_date,
                                                 Upper(req.employer_first_letter),
                                                 today)}]]
    /\ UNCHANGED <<storeVars, prediction_requests, callVars, restVars>>

\* UPDATE prediction_requests SET ... WHERE id = %s; return the dictionary
WorkerUpdate(w) ==
    /\ proc[w].pc = "read"
    /\ LET req == RequestOf(w)
           loc == CHOOSE l \in proc[w].locals : TRUE
       IN  /\ prediction_requests' =
                  [prediction_requests EXCEPT ![UpdateTarget(w)] = UpdatedRow(@, loc)]
           /\ proc' = [proc EXCEPT ![w] =
                  [@ EXCEPT !.pc = "done",
                            !.response =
                                {[status |-> 200, detail |-> "",
                                  body |-> {ResponseBody(proc[w].request_id, req,
                                               Upper(req.employer_first_letter),
                                               loc)}]}]]
    /\ UNCHANGED <<storeVars, callVars, restVars>>

----------------------------------------------------------------------------
(* The state of the other operations when the process starts *)

\* the client addresses of the model
IPs == {"203.0.113.7"}

\* rate_limiter.limits.keys()
LimitedEndpoints == {"/api/data/company-search", "/api/data/company-cases"}

\* the threads of the pool that runs check_rate_limit
Threads == 1..MaxThreads

\* a thread that runs no dependency
IdleThread ==
    [pc |-> "idle", ip |-> "", endpoint |-> "", current_time |-> 0,
     current_requests |-> 0]

ServiceFresh == prediction_model = {} /\ case_backlog = 0 /\ simple = {}

\* requests = defaultdict(lambda: defaultdict(deque))
LimiterFresh ==
    /\ clock = 0
    /\ requests = [ip \in IPs |-> [endpoint \in LimitedEndpoints |-> <<>>]]
    /\ thread = [t \in Threads |-> IdleThread]
    /\ admitted = [ip \in IPs |-> [endpoint \in LimitedEndpoints |-> <<>>]]
    /\ blocked = {}
    /\ checked = 0
    /\ limited = {}

\* last_cache_reset = {}; dashboard_cache = {}
CacheFresh == dashboard_cache = <<>> /\ last_cache_reset = <<>> /\ dashboard = {}

RestFresh ==
    /\ ServiceFresh
    /\ lookup = {}
    /\ accessor = {}
    /\ LimiterFresh
    /\ CacheFresh

----------------------------------------------------------------------------
(* The inputs and the stores of the model *)

\* the Monday of the week the model runs in
Monday0 == Ymd(2024, 3, 11)

Todays == {Ymd(2024, 3, 13)}

SubmitDates == {Ymd(2024, 3, 14), Ymd(2024, 3, 13), Ymd(2024, 1, 31)}

\* "!", "A", "a", "Z", "AB"
Letters == {<<33>>, <<65>>, <<97>>, <<90>>, <<65, 66>>}

CaseNumbers == {"CASE123456"}

Requests ==
    [submit_date : SubmitDates, employer_first_letter : Letters,
     case_number : CaseNumbers]

Failures == {"none"} \cup {Statements[i] : i \in 1..Len(Statements)}

WeekTotal(k) == IF k = 0 THEN 900 ELSE 2000 + 300 * k

WeekRow(k, total) ==
    [week_start |-> Monday0 - 7 * k, total_applications |-> total]

\* no row at all; the week of Monday0 and the n weeks before it; and a table
\* of complete weeks that processed nothing
WeeklyTables ==
    {{}}
    \cup {{WeekRow(k, WeekTotal(k)) : k \in 0..n} : n \in 0..MaxWeeks}
    \cup {{WeekRow(k, 0) : k \in 1..3}}

MonthlyRow(y, m, status, count) ==
    [year |-> y, month |-> MonthNames[m], status |-> status, count |-> count]

MonthlyRows ==
    {MonthlyRow(2023, 12, "ANALYST REVIEW", 100),
     MonthlyRow(2024, 1, "ANALYST REVIEW", 300),
     MonthlyRow(2024, 2, "ANALYST REVIEW", 900),
     MonthlyRow(2024, 3, "ANALYST REVIEW", 5000),
     MonthlyRow(2024, 4, "ANALYST REVIEW", 1000),
     MonthlyRow(2024, 2, "CERTIFIED", 9000)}

MonthlyTables == {{}, MonthlyRows}

ProcessingTables ==
    {{},
     {[record_date |-> Ymd(2024, 3, 1), percentile_50 |-> 120, percentile_80 |-> 250],
      [record_date |-> Ymd(2024, 3, 10), percentile_50 |-> 140, percentile_80 |-> 0]}}

SummaryTables ==
    {{}, {[record_date |-> Ymd(2024, 3, 10), pending_applications |-> 50000]}}

----------------------------------------------------------------------------
(* The specification *)

Init ==
    /\ today \in Todays
    /\ processing_times \in ProcessingTables
    /\ summary_stats \in SummaryTables
    /\ weekly_summary \in WeeklyTables
    /\ monthly_status \in MonthlyTables
    /\ prediction_requests = <<>>
    /\ call = {}
    /\ previous = {}
    /\ served = 0
    /\ proc = [w \in Workers |-> IdleWorker]
    /\ RestFresh

Next ==
    \E req \in Requests, recaptcha_ok \in BOOLEAN, fail \in Failures :
        Predict(req, recaptcha_ok, fail)

Spec == Init /\ [][Next]_vars

----------------------------------------------------------------------------
(* The estimate of a call that reaches its return statement *)

EstimateDates ==
    {Ymd(2023, 12, 20), Ymd(2024, 1, 15), Ymd(2024, 1, 31), Ymd(2024, 2, 1),
     Ymd(2024, 3, 13)}

\* "A", "J", "S", "Z"
EstimateLetters == {<<65>>, <<74>>, <<83>>, <<90>>}

EstimateRequests ==
    [submit_date : EstimateDates, employer_first_letter : EstimateLetters,
     case_number : CaseNumbers]

\* the answers of the mocked cursor of test_predict_from_date_with_case_number
FixtureRows ==
    {MonthlyRow(2023, 12, "ANALYST REVIEW", 10000),
     MonthlyRow(2024, 1, "ANALYST REVIEW", 5000)}

\* a processing_times table whose latest row holds the two percentiles
PercentileTable(p50, p80) ==
    {[record_date |-> Ymd(2024, 3, 1), percentile_50 |-> 120, percentile_80 |-> 250],
     [record_date |-> Ymd(2024, 3, 10), percentile_50 |-> p50, percentile_80 |-> p80]}

InitEstimate ==
    /\ today \in Todays
    /\ processing_times = PercentileTable(140, 0)
    /\ summary_stats \in SummaryTables \ {{}}
    /\ weekly_summary \in {{}, {WeekRow(k, WeekTotal(k)) : k \in 0..WEEKLY_LIMIT}}
    /\ monthly_status \in {{}, MonthlyRows, FixtureRows}
    /\ prediction_requests = <<>>
    /\ call = {}
    /\ previous = {}
    /\ served = 0
    /\ proc = [w \in Workers |-> IdleWorker]
    /\ RestFresh

NextEstimate == \E req \in EstimateRequests : Predict(req, TRUE, "none")

SpecEstimate == InitEstimate /\ [][NextEstimate]_vars

----------------------------------------------------------------------------
(* The estimate of a call that reaches its return statement, for every
   letter A-Z *)

AllLetters == {<<ch>> : ch \in 65..90}

LetterDates == {Ymd(2024, 1, 31), Ymd(2024, 3, 13)}

LetterRequests ==
    [submit_date : LetterDates, employer_first_letter : AllLetters,
     case_number : CaseNumbers]

InitLetters ==
    /\ today \in Todays
    /\ processing_times = PercentileTable(140, 0)
    /\ summary_stats \in SummaryTables \ {{}}
    /\ weekly_summary = {}
    /\ monthly_status \in {MonthlyRows, FixtureRows}
    /\ prediction_requests = <<>>
    /\ call = {}
    /\ previous = {}
    /\ served = 0
    /\ proc = [w \in Workers |-> IdleWorker]
    /\ RestFresh

NextLetters == \E req \in LetterRequests : Predict(req, TRUE, "none")

SpecLetters == InitLetters /\ [][NextLetters]_vars

----------------------------------------------------------------------------
(* Repeated calls on one connection, while the percentile row is refreshed *)

RepeatDates == {Ymd(2024, 3, 13), Ymd(2024, 1, 31)}

\* "A", "z"
RepeatLetters == {<<65>>, <<122>>}

RepeatRequests ==
    [submit_date : RepeatDates, employer_first_letter : RepeatLetters,
     case_number : CaseNumbers]

\* the values (percentile_50, percentile_80) a refresh may store
Percentiles == {<<140, 0>>, <<200, 400>>}

\* the latest row of processing_times gets other percentile values
RefreshPercentiles(p50, p80) ==
    /\ processing_times' = PercentileTable(p50, p80)
    /\ processing_times' # processing_times
    /\ UNCHANGED <<today, summary_stats, weekly_summary, monthly_status,
                   prediction_requests, callVars, proc, restVars>>

\* POST /predictions/from-date, once more
PredictAgain(req, recaptcha_ok, fail) ==
    /\ served < MaxRepeats
    /\ PredictFromSubmitDate(req, recaptcha_ok, fail)

InitRepeat ==
    /\ today \in Todays
    /\ processing_times = PercentileTable(140, 0)
    /\ summary_stats \in SummaryTables \ {{}}
    /\ weekly_summary = {WeekRow(k, WeekTotal(k)) : k \in 0..WEEKLY_LIMIT}
    /\ monthly_status = MonthlyRows
    /\ prediction_requests = <<>>
    /\ call = {}
    /\ previous = {}
    /\ served = 0
    /\ proc = [w \in Workers |-> IdleWorker]
    /\ RestFresh

NextRepeat ==
    \/ \E req \in RepeatRequests, recaptcha_ok \in BOOLEAN, fail \in Failures :
          PredictAgain(req, recaptcha_ok, fail)
    \/ \E p \in Percentiles : RefreshPercentiles(p[1], p[2])

SpecRepeat == InitRepeat /\ [][NextRepeat]_vars

----------------------------------------------------------------------------
(* Two calls of the prediction endpoint in worker processes *)

WorkerRequests ==
    [submit_date : RepeatDates, employer_first_letter : RepeatLetters,
     case_number : CaseNumbers]

InitWorkers ==
    /\ today \in Todays
    /\ processing_times \in ProcessingTables
    /\ summary_stats \in SummaryTables \ {{}}
    /\ weekly_summary = {WeekRow(k, WeekTotal(k)) : k \in 0..WEEKLY_LIMIT}
    /\ monthly_status = MonthlyRows
    /\ prediction_requests = <<>>
    /\ call = {}
    /\ previous = {}
    /\ served = 0
    /\ proc = [w \in Workers |-> IdleWorker]
    /\ RestFresh

NextWorkers ==
    \E w \in Workers :
        \/ \E req \in WorkerRequests : WorkerInsert(w, req)
        \/ WorkerRead(w)
        \/ WorkerUpdate(w)

SpecWorkers == InitWorkers /\ [][NextWorkers]_vars

----------------------------------------------------------------------------
(* PredictionService.predict_from_date: the estimate from the date alone *)

\* round(x) of a non-negative x: to the nearest integer, a half to the even one
RoundOf(a) ==
    LET floor == a[1] \div a[2]
        twice == 2 * (a[1] - floor * a[2])
    IN  IF twice < a[2] THEN floor
        ELSE IF twice > a[2] THEN floor + 1
        ELSE IF floor % 2 = 0 THEN floor ELSE floor + 1

\* db.query(PredictionModel).order_by(desc(PredictionModel.model_date)).first()
LatestModel ==
    {m \in prediction_model :
        \A q \in prediction_model : q.model_date <= m.model_date}

\* {"monthly": {str(i): 1.0 ...}, "daily": {str(i): 1.0 ...}}
DefaultSeasonalFactors ==
    [monthly |-> [i \in 1..12 |-> Rat(1, 1)], daily |-> [i \in 0..6 |-> Rat(1, 1)]]

\* dict.get(key, 1.0)
FactorOf(factors, key) ==
    IF key \in DOMAIN factors THEN factors[key] ELSE Rat(1, 1)

\* _get_seasonal_factor
SeasonalFactor(submit_date, seasonal_factors) ==
    RMul(FactorOf(seasonal_factors.monthly, MonthOf(submit_date)),
         FactorOf(seasonal_factors.daily, Weekday(submit_date)))

\* _calculate_processing_time
CalculateProcessingTime(submit_date, base_time, backlog, backlog_factor, seasonal_factors) ==
    RoundOf(RMul(RAdd(base_time, RMul(Rat(backlog, 1), backlog_factor)),
                 SeasonalFactor(submit_date, seasonal_factors)))

\* base_time = 30 if there is no model
BaseTime ==
    IF LatestModel = {} THEN Rat(DEFAULT_BASE_TIME, 1)
    ELSE (CHOOSE m \in LatestModel : TRUE).base_processing_time

\* backlog_factor = 0.01 if there is no model
BacklogFactor ==
    IF LatestModel = {} THEN Rat(1, 100)
    ELSE (CHOOSE m \in LatestModel : TRUE).backlog_factor

SeasonalFactors ==
    IF LatestModel = {} THEN DefaultSeasonalFactors
    ELSE (CHOOSE m \in LatestModel : TRUE).seasonal_factors

\* PredictionService.predict_from_date
PredictFromDate(submit_date) ==
    /\ simple' =
          {[case_identifier |-> <<"HYPO", submit_date>>,
            submit_date |-> submit_date,
            estimated_completion_date |->
                submit_date + CalculateProcessingTime(submit_date, BaseTime,
                                  case_backlog, BacklogFactor, SeasonalFactors),
            confidence_level |-> Rat(8, 10),
            factors_considered |->
                [base_processing_time |-> BaseTime,
                 current_backlog |-> case_backlog,
                 backlog_factor |-> BacklogFactor,
                 submit_month |-> MonthOf(submit_date),
                 seasonal_adjustment |-> SeasonalFactor(submit_date, SeasonalFactors)]]}
    /\ UNCHANGED <<predictionVars, prediction_model, case_backlog, lookup,
                   accessor, limiterVars, cacheVars>>

ModelRows ==
    {[model_date |-> Ymd(2024, 3, 1), base_processing_time |-> Rat(150, 1),
      backlog_factor |-> Rat(1, 100),
      seasonal_factors |-> [monthly |-> [i \in {3} |-> Rat(11, 10)],
                            daily |-> [i \in {} |-> Rat(1, 1)]]],
     [model_date |-> Ymd(2024, 2, 1), base_processing_time |-> Rat(91, 2),
      backlog_factor |-> Rat(0, 1),
      seasonal_factors |-> DefaultSeasonalFactors]}

CaseBacklogs == {0, 50, 1000, 5000}

ServiceDates == SubmitDates \cup EstimateDates

InitService ==
    /\ today \in Todays
    /\ processing_times \in ProcessingTables
    /\ summary_stats \in SummaryTables \ {{}}
    /\ weekly_summary = {}
    /\ monthly_status = MonthlyRows
    /\ prediction_requests = <<>>
    /\ call = {}
    /\ previous = {}
    /\ served = 0
    /\ proc = [w \in Workers |-> IdleWorker]
    /\ prediction_model \in {{}} \cup {{m} : m \in ModelRows}
    /\ case_backlog \in CaseBacklogs
    /\ simple = {}
    /\ lookup = {}
    /\ accessor = {}
    /\ LimiterFresh
    /\ CacheFresh

NextService == \E submit_date \in ServiceDates : PredictFromDate(submit_date)

SpecService == InitService /\ [][NextService]_vars

----------------------------------------------------------------------------
(* GET /requests/{request_id}: one stored prediction request *)

\* SELECT ... FROM prediction_requests WHERE id = %s; cursor.fetchone()
\* (created_at is filled by the table's default and is not a field of the model's rows)
RequestById(request_id) ==
    {prediction_requests[i] : i \in {j \in DOMAIN prediction_requests :
                                         prediction_requests[j].id = request_id}}

\* what the body of the try raises: the driver's error when the statement
\* fails, the HTTPException of `if not request`, or nothing
LookupRaised(request_id, db_error) ==
    IF db_error
    THEN {[type |-> "Exception", status_code |-> 0, detail |-> "database error"]}
    ELSE IF RequestById(request_id) = {}
    THEN {[type |-> "HTTPException", status_code |-> 404,
           detail |-> "Prediction request not found"]}
    ELSE {}

\* the two except clauses with the first one missing
LookupHandled_WrapAll(exc) ==
    [status |-> 500,
     detail |-> <<"Error retrieving prediction request: ", exc.detail>>]

\* except HTTPException: raise / except Exception as e: raise HTTPException(500, ...)
LookupHandled(exc) ==
    IF exc.type = "HTTPException"
    THEN [status |-> exc.status_code, detail |-> <<exc.detail>>]
    ELSE [status |-> 500,
          detail |-> <<"Error retrieving prediction request: ", exc.detail>>]

\* get_prediction_request
GetPredictionRequest(request_id, db_error) ==
    /\ lookup' =
          LET raised == LookupRaised(request_id, db_error)
          IN  IF raised # {}
              THEN LET answer == LookupHandled(CHOOSE exc \in raised : TRUE)
                   IN  {[request_id |-> request_id, db_error |-> db_error,
                         status |-> answer.status, detail |-> answer.detail,
                         body |-> {}]}
              ELSE {[request_id |-> request_id, db_error |-> db_error,
                     status |-> 200, detail |-> <<>>,
                     body |-> RequestById(request_id)]}
    /\ UNCHANGED <<predictionVars, serviceVars, accessor, limiterVars, cacheVars>>

RequestIds == 0..(MaxCalls + 1)

InitLookup == InitWorkers

NextLookup ==
    \/ \E req \in WorkerRequests, recaptcha_ok \in BOOLEAN :
           Predict(req, recaptcha_ok, "none")
    \/ \E request_id \in RequestIds, db_error \in BOOLEAN :
           GetPredictionRequest(request_id, db_error)

SpecLookup == InitLookup /\ [][NextLookup]_vars

----------------------------------------------------------------------------
(* The dashboard's accessor helpers *)

ListAccessors ==
    {"get_daily_volume_data", "get_weekly_averages_data",
     "get_weekly_volumes_data", "get_monthly_volumes_data",
     "get_monthly_backlog_data"}

Accessors ==
    ListAccessors \cup {"get_todays_progress_data", "get_current_backlog",
                        "get_latest_processing_times"}

\* what the `except Exception` clause of the helper returns
AccessorDefault(name, comparison_days) ==
    IF name \in ListAccessors THEN <<>>
    ELSE IF name = "get_current_backlog" THEN 0
    ELSE IF name = "get_todays_progress_data"
    THEN [new_cases |-> 0, processed_cases |-> 0, new_cases_change |-> 0,
          processed_cases_change |-> 0, date |-> today, current_backlog |-> 0,
          comparison_days |-> comparison_days,
          comparison_period |-> "Historical Average", period_label |-> "Today"]
    ELSE [lower_estimate_days |-> {}, median_days |-> {},
          upper_estimate_days |-> {}, as_of_date |-> {}]

\* what the body of the try returns when no statement of it raises; `rows`
\* are the counts fetched from the tables the model does not hold
\* (percentile_30 is NULL in the model's processing_times rows)
AccessorValue(name, rows, comparison_days) ==
    IF name \in ListAccessors THEN rows
    ELSE IF name = "get_current_backlog"
    THEN IF LatestSummaryRow = {} THEN 0
         ELSE (CHOOSE r \in LatestSummaryRow : TRUE).pending_applications
    ELSE IF name = "get_todays_progress_data"
    THEN IF rows = <<>>
         THEN [new_cases |-> 0, processed_cases |-> 0, new_cases_change |-> 0,
               processed_cases_change |-> 0, date |-> today,
               current_backlog |-> 0, comparison_days |-> comparison_days,
               comparison_period |-> "Historical Average",
               period_label |-> "Today"]
         ELSE [new_cases |-> rows[1], processed_cases |-> rows[Len(rows)],
               new_cases_change |-> 0, processed_cases_change |-> 0,
               date |-> today,
               current_backlog |->
                   IF LatestSummaryRow = {} THEN 0
                   ELSE (CHOOSE r \in LatestSummaryRow : TRUE).pending_applications,
               comparison_days |-> comparison_days,
               comparison_period |-> "Historical Average",
               period_label |-> "Today"]
    ELSE IF LatestProcessingRow = {}
    THEN [lower_estimate_days |-> {}, median_days |-> {},
          upper_estimate_days |-> {}, as_of_date |-> {}]
    ELSE LET row == CHOOSE r \in LatestProcessingRow : TRUE
         IN  [lower_estimate_days |-> {}, median_days |-> {row.percentile_50},
              upper_estimate_days |-> {row.percentile_80},
              as_of_date |-> {row.record_date}]

\* a helper whose except clause lets the error go on to the caller
AccessorExcept_Reraise(name, comparison_days) ==
    [raised |-> TRUE, value |-> <<>>]

\* except Exception as e: print(...); return <default>
AccessorExcept(name, comparison_days) ==
    [raised |-> FALSE, value |-> AccessorDefault(name, comparison_days)]

\* one call of a helper; db_error: a statement of its body raises
CallAccessor(name, rows, comparison_days, db_error) ==
    /\ accessor' =
          LET outcome ==
                  IF db_error THEN AccessorExcept(name, comparison_days)
                  ELSE [raised |-> FALSE,
                        value |-> AccessorValue(name, rows, comparison_days)]
          IN  {[name |-> name, comparison_days |-> comparison_days,
                db_error |-> db_error, raised |-> outcome.raised,
                value |-> outcome.value]}
    /\ UNCHANGED <<predictionVars, serviceVars, lookup, limiterVars, cacheVars>>

FetchedRows == {<<>>, <<120>>, <<120, 95>>}

ComparisonDays == {7, 30}

InitAccessors ==
    /\ today \in Todays
    /\ processing_times \in ProcessingTables
    /\ summary_stats \in SummaryTables
    /\ weekly_summary = {WeekRow(k, WeekTotal(k)) : k \in 0..WEEKLY_LIMIT}
    /\ monthly_status = MonthlyRows
    /\ prediction_requests = <<>>
    /\ call = {}
    /\ previous = {}
    /\ served = 0
    /\ proc = [w \in Workers |-> IdleWorker]
    /\ RestFresh

NextAccessors ==
    \E name \in Accessors, rows \in FetchedRows,
       comparison_days \in ComparisonDays, db_error \in BOOLEAN :
        CallAccessor(name, rows, comparison_days, db_error)

SpecAccessors == InitAccessors /\ [][NextAccessors]_vars

----------------------------------------------------------------------------
(* RateLimiter: is_rate_limited, clean_old_requests, block_ip *)

\* self.limits
Limits ==
    [endpoint \in LimitedEndpoints |->
        IF endpoint = "/api/data/company-search"
        THEN [requests |-> SEARCH_LIMIT, window |-> WINDOW]
        ELSE [requests |-> CASES_LIMIT, window |-> WINDOW]]

\* the paths a request can have: the limited ones and one that is not
Endpoints == LimitedEndpoints \cup {"/api/data/dashboard"}

\* the index of the first timestamp that `while deque and deque[0] < cutoff_time`
\* does not pop
FirstKept(deque, cutoff_time) ==
    LET kept == {i \in DOMAIN deque : deque[i] >= cutoff_time}
    IN  IF kept = {} THEN Len(deque) + 1
        ELSE CHOOSE i \in kept : \A j \in kept : i <= j

\* clean_old_requests: the deque after the popleft loop
CleanOldRequests(deque, now, window) ==
    SubSeq(deque, FirstKept(deque, now - window), Len(deque))

\* a retry_after without the added second
RetryAfter_WithoutPlusOne(deque, window, current_time) ==
    IF deque # <<>> THEN deque[1] + window - current_time ELSE window

\* retry_after = int(oldest_request + window - current_time) + 1, or window
\* for an empty deque (whole seconds: int() leaves the difference as it is)
RetryAfter(deque, window, current_time) ==
    IF deque # <<>> THEN (deque[1] + window - current_time) + 1 ELSE window

\* the dict is_rate_limited returns and the 429 check_rate_limit makes of it
Rejection(t, deque, current_requests) ==
    LET endpoint == thread[t].endpoint
    IN  [ip |-> thread[t].ip, endpoint |-> endpoint,
         current_time |-> thread[t].current_time,
         status |-> 429,
         retry_after |-> RetryAfter(deque, Limits[endpoint].window,
                                    thread[t].current_time),
         current_requests |-> current_requests,
         max_requests |-> Limits[endpoint].requests]

\* is_rate_limited returned None: the request goes on to its handler
LetThrough(ip, endpoint, current_time) ==
    [ip |-> ip, endpoint |-> endpoint, current_time |-> current_time,
     status |-> 200]

\* lines 68-74: ip, endpoint, current_time = time.time(); a path without a
\* limit returns None at once
LimiterStart(t, ip, endpoint) ==
    /\ thread[t].pc = "idle"
    /\ checked < MaxRequests
    /\ checked' = checked + 1
    /\ IF endpoint \in LimitedEndpoints
       THEN /\ thread' = [thread EXCEPT ![t] =
                  [pc |-> "clean", ip |-> ip, endpoint |-> endpoint,
                   current_time |-> clock, current_requests |-> 0]]
            /\ limited' = limited
       ELSE /\ thread' = thread
            /\ limited' = {LetThrough(ip, endpoint, clock)}
    /\ UNCHANGED <<predictionVars, serviceVars, lookup, accessor, clock,
                   requests, admitted, blocked, cacheVars>>

\* line 82: self.clean_old_requests(ip, endpoint, window), with its own time.time()
LimiterClean(t) ==
    /\ thread[t].pc = "clean"
    /\ LET ip == thread[t].ip
           endpoint == thread[t].endpoint
       IN  requests' = [requests EXCEPT ![ip][endpoint] =
               CleanOldRequests(@, clock, Limits[endpoint].window)]
    /\ thread' = [thread EXCEPT ![t].pc = "count"]
    /\ UNCHANGED <<predictionVars, serviceVars, lookup, accessor, clock,
                   admitted, blocked, checked, limited, cacheVars>>

\* lines 85-107: current_requests = len(...); the rejection when the limit
\* is reached
LimiterCount(t) ==
    /\ thread[t].pc = "count"
    /\ LET deque == requests[thread[t].ip][thread[t].endpoint]
           current_requests == Len(deque)
       IN  IF current_requests >= Limits[thread[t].endpoint].requests
           THEN /\ thread' = [thread EXCEPT ![t] = IdleThread]
                /\ limited' = {Rejection(t, deque, current_requests)}
           ELSE /\ thread' = [thread EXCEPT ![t].pc = "append",
                                            ![t].current_requests = current_requests]
                /\ limited' = limited
    /\ UNCHANGED <<predictionVars, serviceVars, lookup, accessor, clock,
                   requests, admitted, blocked, checked, cacheVars>>

\* lines 110-112: self.requests[ip][endpoint].append(current_time); return None
LimiterAppend(t) ==
    /\ thread[t].pc = "append"
    /\ LET ip == thread[t].ip
           endpoint == thread[t].endpoint
       IN  /\ requests' = [requests EXCEPT ![ip][endpoint] =
                  Append(@, thread[t].current_time)]
           /\ admitted' = [admitted EXCEPT ![ip][endpoint] =
                  Append(@, thread[t].current_time)]
           /\ limited' = {LetThrough(ip, endpoint, thread[t].current_time)}
    /\ thread' = [thread EXCEPT ![t] = IdleThread]
    /\ UNCHANGED <<predictionVars, serviceVars, lookup, accessor, clock,
                   blocked, checked, cacheVars>>

\* RateLimiter.block_ip, called by POST /data/admin/block-ip
BlockIp(ip, duration) ==
    /\ blocked = {}
    /\ requests' = [requests EXCEPT ![ip] =
          [endpoint \in LimitedEndpoints |-> [i \in 1..FAKE_REQUESTS |-> clock]]]
    /\ blocked' = blocked \cup {[ip |-> ip, duration |-> duration, at |-> clock]}
    /\ UNCHANGED <<predictionVars, serviceVars, lookup, accessor, clock,
                   thread, admitted, checked, limited, cacheVars>>

\* no call of is_rate_limited is under way
NoCallUnderWay == \A t \in Threads : thread[t].pc = "idle"

\* time passes, in steps far longer than a call of is_rate_limited takes
TickSteps == {30, 61}

Tick(d, last) ==
    /\ NoCallUnderWay
    /\ clock + d <= last
    /\ clock' = clock + d
    /\ UNCHANGED <<predictionVars, serviceVars, lookup, accessor, requests,
                   thread, admitted, blocked, checked, limited, cacheVars>>

\* a limiter that let limit - 1 requests through in its first second
Prefilled(endpoint) == [i \in 1..(Limits[endpoint].requests - 1) |-> 0]

InitLimiter ==
    /\ today \in Todays
    /\ processing_times \in ProcessingTables \ {{}}
    /\ summary_stats \in SummaryTables \ {{}}
    /\ weekly_summary = {WeekRow(k, WeekTotal(k)) : k \in 0..WEEKLY_LIMIT}
    /\ monthly_status = MonthlyRows
    /\ prediction_requests = <<>>
    /\ call = {}
    /\ previous = {}
    /\ served = 0
    /\ proc = [w \in Workers |-> IdleWorker]
    /\ ServiceFresh
    /\ lookup = {}
    /\ accessor = {}
    /\ clock = 0
    /\ requests \in [IPs -> [LimitedEndpoints -> {<<>>}]]
                    \cup {[ip \in IPs |-> [endpoint \in LimitedEndpoints |->
                                                Prefilled(endpoint)]]}
    /\ admitted = requests
    /\ thread = [t \in Threads |-> IdleThread]
    /\ blocked = {}
    /\ checked = 0
    /\ limited = {}
    /\ CacheFresh

\* the steps of the thread pool, in any interleaving
NextThreads ==
    \/ \E t \in Threads, ip \in IPs, endpoint \in Endpoints :
           LimiterStart(t, ip, endpoint)
    \/ \E t \in Threads : LimiterClean(t)
    \/ \E t \in Threads : LimiterCount(t)
    \/ \E t \in Threads : LimiterAppend(t)
    \/ \E d \in TickSteps : Tick(d, MaxClock)

SpecThreads == InitLimiter /\ [][NextThreads]_vars

\* the calls of is_rate_limited one after the other
NextLimiter ==
    \/ \E t \in Threads, ip \in IPs, endpoint \in Endpoints :
           NoCallUnderWay /\ LimiterStart(t, ip, endpoint)
    \/ \E t \in Threads : LimiterClean(t)
    \/ \E t \in Threads : LimiterCount(t)
    \/ \E t \in Threads : LimiterAppend(t)
    \/ \E d \in TickSteps : Tick(d, MaxClock)

SpecLimiter == InitLimiter /\ [][NextLimiter]_vars

BlockDurations == {DEFAULT_BLOCK_DURATION, 120}

\* the calls one after the other, and the administrator's block
NextBlock ==
    \/ \E ip \in IPs, duration \in BlockDurations :
           NoCallUnderWay /\ BlockIp(ip, duration)
    \/ NextLimiter

SpecBlock == InitLimiter /\ [][NextBlock]_vars

----------------------------------------------------------------------------
(* GET /data/dashboard and POST /data/clear-cache: the dashboard cache *)

\* a should_reset_cache that resets only when the endpoint has no timestamp
ShouldResetCache_OnlyFirst(endpoint, now) ==
    endpoint \notin DOMAIN last_cache_reset

\* should_reset_cache: the value returned (on TRUE it has set
\* last_cache_reset[endpoint] = now)
ShouldResetCache(endpoint, now) ==
    \/ endpoint \notin DOMAIN last_cache_reset
    \/ now - last_cache_reset[endpoint] > CACHE_TIMEOUT

\* cache_key = f"{days}_{data_type}"
CacheKey(days, data_type) == <<days, data_type>>

\* the tables the accessor helpers of a cache miss read
DashboardTables ==
    {"daily_progress", "weekly_summary", "monthly_summary", "summary_stats",
     "processing_times", "perm_cases", "monthly_status"}

\* the result a cache miss computes, with the time of the computation
DashboardResult(days, data_type, now) ==
    [days |-> days, data_type |-> data_type, computed_at |-> now,
     current_backlog |-> AccessorValue("get_current_backlog", <<>>, days),
     processing_times |-> AccessorValue("get_latest_processing_times", <<>>, days)]

\* get_dashboard_data; fail: a statement between the cache test and the
\* caching of the result raises
GetDashboardData(days, data_type, fail) ==
    LET reset == ShouldResetCache("dashboard", clock)
        cache == IF reset THEN <<>> ELSE dashboard_cache
        cache_key == CacheKey(days, data_type)
        hit == cache_key \in DOMAIN cache
        result == DashboardResult(days, data_type, clock)
    IN  /\ last_cache_reset' =
              IF reset THEN ("dashboard" :> clock) @@ last_cache_reset
              ELSE last_cache_reset
        /\ dashboard_cache' =
              IF hit \/ fail THEN cache ELSE (cache_key :> result) @@ cache
        /\ dashboard' =
              {[op |-> "dashboard", cache_key |-> cache_key, reset |-> reset,
                hit |-> hit, served_at |-> clock,
                status |-> IF ~hit /\ fail THEN 500 ELSE 200,
                result |-> IF hit THEN {cache[cache_key]}
                           ELSE IF fail THEN {} ELSE {result},
                reads |-> IF hit THEN {} ELSE DashboardTables,
                cleared_items |-> 0]}
        /\ UNCHANGED <<predictionVars, serviceVars, lookup, accessor,
                       limiterVars>>

\* clear_dashboard_cache: both dicts are cleared, then len(dashboard_cache)
\* is taken
ClearDashboardCache ==
    /\ dashboard_cache' = <<>>
    /\ last_cache_reset' = <<>>
    /\ dashboard' =
          {[op |-> "clear-cache", cache_key |-> <<>>, reset |-> FALSE,
            hit |-> FALSE, served_at |-> clock, status |-> 200, result |-> {},
            reads |-> {}, cleared_items |-> Cardinality(DOMAIN dashboard_cache')]}
    /\ UNCHANGED <<predictionVars, serviceVars, lookup, accessor, limiterVars>>

DashboardDays == {7, 30}

DataTypes == {"certified", "processed"}

CacheSteps == {1800, 3601}

InitCache == InitAccessors

NextCache ==
    \/ \E days \in DashboardDays, data_type \in DataTypes, fail \in BOOLEAN :
           GetDashboardData(days, data_type, fail)
    \/ ClearDashboardCache
    \/ \E d \in CacheSteps : Tick(d, MaxCacheClock)

SpecCache == InitCache /\ [][NextCache]_vars

----------------------------------------------------------------------------
(* Claims C1 - C10: the prediction endpoint *)

\* the request passed validation and reCAPTCHA: the handler body ran
Admitted(c) == ValidRequest(c.req) /\ c.recaptcha_ok

\* the letter sent is one ASCII letter
Alphabetic(letter) == Len(letter) = 1 /\ letter[1] \in (65..90) \cup (97..122)

\* C1: a submitDate later than today is rejected: the response is an error
\* and carries no estimate.
C1_FutureSubmitDateRejected ==
    \A c \in call :
        c.req.submit_date > today
            => c.response.status # 200 /\ c.response.body = {}

\* C2: with no percentile row or no backlog snapshot in the store, and no
\* other failure, the call answers 200 with an estimate computed with the
\* defaults p50 = 150, p80 = 300, backlog = 0.
C2_MissingAggregatesDegrade ==
    \A c \in call :
        (/\ Admitted(c)
         /\ c.fail = "none"
         /\ (processing_times = {} \/ summary_stats = {}))
            => /\ c.response.status = 200
               /\ c.response.body # {}
               /\ \A l \in c.locals :
                    /\ processing_times = {}
                         => l.base_days = 150 /\ l.upper_base_days = 300
                    /\ summary_stats = {} => l.current_backlog = 0

\* C3: when the INSERT of the audit record or the UPDATE that attaches the
\* result fails, the call still answers 200 with the estimate.
C3_AuditFailureDoesNotBlock ==
    \A c \in call :
        (Admitted(c) /\ c.fail \in {"insert", "update"})
            => c.response.status = 200 /\ c.response.body # {}

\* C4: when a read of the aggregate store (percentile, backlog, weekly or
\* monthly query) fails, the call still answers 200 with an estimate.
C4_ReadFailureDegrades ==
    \A c \in call :
        (/\ Admitted(c)
         /\ c.fail \in {"processing_times", "summary_stats", "weekly_summary",
                        "cases_ahead", "same_month"})
            => c.response.status = 200 /\ c.response.body # {}

\* C5: a letter is accepted only if it is one alphabetic character, and is
\* then returned in upper case (A-Z); a single character that is not
\* alphabetic is rejected and yields no estimate.
C5_NonAlphabeticLetterRejected ==
    \A c \in call :
        /\ \A b \in c.response.body :
              Alphabetic(c.req.employer_first_letter)
                  => b.employer_first_letter[1] \in 65..90
        /\ (Len(c.req.employer_first_letter) = 1
            /\ ~Alphabetic(c.req.employer_first_letter))
              => c.response.status # 200 /\ c.response.body = {}

\* every count of the aggregate store is non-negative
NonNegativeCounts ==
    /\ \A r \in weekly_summary : r.total_applications >= 0
    /\ \A r \in monthly_status : r.count >= 0
    /\ \A r \in summary_stats : r.pending_applications >= 0

\* C6: for a submitDate not after today, a letter in A-Z and non-negative
\* counts in the store, every estimate returned has remainingDays >= 0 and
\* completionDate >= today.
C6_RemainingDaysNonNegative ==
    \A c \in call : \A b \in c.response.body :
        (/\ c.req.submit_date <= today
         /\ b.employer_first_letter[1] \in 65..90
         /\ NonNegativeCounts)
            => b.remaining_days >= 0 /\ b.estimated_completion_date >= today

\* a case submitted before today, with a letter, gets an estimate with days left
C6_Witness ==
    \E c \in call : \E b \in c.response.body :
        /\ c.req.submit_date < today
        /\ b.employer_first_letter[1] \in 65..90
        /\ NonNegativeCounts
        /\ b.days_already_in_queue > 0
        /\ b.remaining_days > 0
        /\ b.estimated_completion_date = today + b.remaining_days

\* C7: in every estimate returned, upperBoundDate >= completionDate.
C7_UpperBoundNotBeforeCompletion ==
    \A c \in call : \A b \in c.response.body :
        b.upper_bound_date >= b.estimated_completion_date

\* the weeks of weekly_summary that start before the Monday of the current week
CompleteWeeks ==
    {r \in weekly_summary : r.week_start < today - Weekday(today)}

\* the four (or fewer) latest of them
LatestCompleteWeeks ==
    {r \in CompleteWeeks :
        Cardinality({q \in CompleteWeeks : q.week_start > r.week_start}) < 4}

\* rate is the arithmetic mean of total_applications over the rows
IsMeanOf(rate, rows) ==
    rate[1] * Cardinality(rows) = rate[2] * SumOver(rows, "total_applications")

\* C8: with fewer than 3 complete weeks in weekly_summary, the weekly rate
\* used by the prediction is the default 2900.
C8_DefaultRateBelowThreeWeeks ==
    \A c \in call : \A l \in c.locals :
        Cardinality(CompleteWeeks) < 3 => l.weekly_rate = <<2900, 1>>

\* C9 as stated: whenever a complete week is available, the weekly rate used
\* is the mean of totalCount over the at most 4 latest complete weeks.
C9_RateIsMeanOfCompleteWeeks ==
    \A c \in call : \A l \in c.locals :
        CompleteWeeks # {} => IsMeanOf(l.weekly_rate, LatestCompleteWeeks)

\* C9 as amended: whenever a complete week is available, the weekly rate used
\* is the mean of totalCount over the at most 4 latest complete weeks if that
\* mean is not zero, and the default 2900 if it is zero; the current week
\* never contributes.
C9_RateIsNonZeroMeanOrDefault ==
    \A c \in call : \A l \in c.locals :
        CompleteWeeks # {}
            => IF SumOver(LatestCompleteWeeks, "total_applications") # 0
               THEN IsMeanOf(l.weekly_rate, LatestCompleteWeeks)
               ELSE l.weekly_rate = <<2900, 1>>

\* an estimate computed from more than 4 complete weeks and a row of the
\* current week
C9_Witness ==
    \E c \in call : \E l \in c.locals :
        /\ Cardinality(CompleteWeeks) > 4
        /\ weekly_summary \ CompleteWeeks # {}
        /\ SumOver(LatestCompleteWeeks, "total_applications") # 0
        /\ IsMeanOf(l.weekly_rate, LatestCompleteWeeks)
        /\ ~IsMeanOf(l.weekly_rate, weekly_summary)
        /\ ~IsMeanOf(l.weekly_rate, CompleteWeeks)

\* C10: remainingDays is 7 * queuePosition / weeklyRate rounded to a nearest
\* integer: it differs from the exact quotient by at most 1/2.
C10_RemainingDaysRounded ==
    \A c \in call : \A l \in c.locals :
        RPos(l.weekly_rate)
            => LET x == RMul(RDiv(l.raw_queue_position, l.weekly_rate), Rat(7, 1))
               IN  Abs(2 * x[1] - 2 * l.remaining_days * x[2]) <= x[2]

----------------------------------------------------------------------------
(* Claims C11 - C17: the arithmetic of the estimate *)

\* the smallest integer that is not below a
CeilOf(a) ==
    IF a[1] >= 0 THEN (a[1] + a[2] - 1) \div a[2] ELSE -((-a[1]) \div a[2])

\* a <= b
RLeq(a, b) == a[1] * b[2] <= b[1] * a[2]

\* the ordinal of an upper-case letter: 'A' = 0 ... 'Z' = 25
LetterOrdinal(letter) == letter[1] - 65

\* the ordinal of a month name: January = 1 ... December = 12
MonthOrdinal(name) == CHOOSE i \in 1..12 : MonthNames[i] = name

\* (y1, m1) is a month before (y2, m2)
EarlierYearMonth(y1, m1, y2, m2) == y1 < y2 \/ (y1 = y2 /\ m1 < m2)

\* the month of date d1 is before the month of date d2
EarlierMonth(d1, d2) ==
    EarlierYearMonth(YearOf(d1), MonthOf(d1), YearOf(d2), MonthOf(d2))

\* C11: upperBoundDate is today plus the ceiling of remainingDays * 1.15.
C11_UpperBoundIsCeiling ==
    \A c \in call : \A l \in c.locals :
        l.upper_bound_date = today + CeilOf(Rat(l.remaining_days * 115, 100))

\* C12: for one letter A-Z and one store with non-negative counts, a
\* submitDate in an earlier (year, month) has a queuePosition that is not
\* above the queuePosition of a submitDate in a later (year, month).
C12_MonthMonotone ==
    \A c \in call : \A l \in c.locals : \A d \in EstimateDates :
        (LetterOrdinal(Upper(c.req.employer_first_letter)) \in 0..25
         /\ NonNegativeCounts)
            => LET other == RawQueuePosition(d, Upper(c.req.employer_first_letter))
               IN  /\ EarlierMonth(c.req.submit_date, d)
                        => RLeq(l.raw_queue_position, other)
                   /\ EarlierMonth(d, c.req.submit_date)
                        => RLeq(other, l.raw_queue_position)

\* the last day of a month with letter 'Z' against the first day of the next
\* month: the whole month is ahead of both
C12_Witness ==
    \E c \in call : \E l \in c.locals : \E d \in EstimateDates :
        /\ LetterOrdinal(Upper(c.req.employer_first_letter)) = 25
        /\ NonNegativeCounts
        /\ DayOf(c.req.submit_date) = 31
        /\ l.same_month_total > 0
        /\ EarlierMonth(c.req.submit_date, d)
        /\ DayOf(d) = 1
        /\ SameMonthTotal(d) > 0
        /\ l.raw_queue_position[1] =
               (l.cases_before_month + l.same_month_total) * l.raw_queue_position[2]
        /\ RLeq(l.raw_queue_position,
                RawQueuePosition(d, Upper(c.req.employer_first_letter)))

\* C13: for one submitDate and one store with non-negative counts, the
\* queuePosition does not decrease when the letter ordinal grows; that of
\* 'A' is not above that of 'Z'.
C13_LetterMonotone ==
    \A c \in call : \A l \in c.locals : \A letter \in AllLetters :
        (LetterOrdinal(Upper(c.req.employer_first_letter)) \in 0..25
         /\ NonNegativeCounts)
            => LET other == RawQueuePosition(c.req.submit_date, letter)
               IN  /\ LetterOrdinal(Upper(c.req.employer_first_letter))
                          <= LetterOrdinal(letter)
                        => RLeq(l.raw_queue_position, other)
                   /\ LetterOrdinal(letter)
                          <= LetterOrdinal(Upper(c.req.employer_first_letter))
                        => RLeq(other, l.raw_queue_position)

\* letter 'A' in a month with pending cases: strictly ahead of letter 'Z'
C13_Witness ==
    \E c \in call : \E l \in c.locals :
        /\ LetterOrdinal(Upper(c.req.employer_first_letter)) = 0
        /\ NonNegativeCounts
        /\ l.same_month_total > 0
        /\ RLeq(l.raw_queue_position, RawQueuePosition(c.req.submit_date, <<90>>))
        /\ ~RLeq(RawQueuePosition(c.req.submit_date, <<90>>), l.raw_queue_position)

\* C14: letterPriority is HIGH for ordinals 0..8, MEDIUM for 9..17 and LOW
\* for 18..25, and letterImpact is FASTER, AVERAGE, SLOWER on the same ranges.
C14_PriorityRanges ==
    \A c \in call : \A b \in c.response.body :
        LET ordinal == LetterOrdinal(b.employer_first_letter)
        IN  /\ ordinal \in 0..8
                => b.letter_priority = "HIGH" /\ b.processing_impact = "FASTER"
            /\ ordinal \in 9..17
                => b.letter_priority = "MEDIUM" /\ b.processing_impact = "AVERAGE"
            /\ ordinal \in 18..25
                => b.letter_priority = "LOW" /\ b.processing_impact = "SLOWER"

\* letter 'J', ordinal 9, the first of the MEDIUM range
C14_Witness ==
    \E c \in call : \E b \in c.response.body :
        /\ LetterOrdinal(b.employer_first_letter) = 9
        /\ b.letter_priority = "MEDIUM"
        /\ b.processing_impact = "AVERAGE"

\* C15: queuePosition = casesBeforeMonth + sameMonthTotal * (0.8 *
\* letterOrdinal / 25 + 0.2 * (day - 1) / 30), a fraction until it is put in
\* the response; with casesBeforeMonth 10000, sameMonthTotal 5000, day 15,
\* letter 'A' and rate 2900 it is 10466 2/3 and remainingDays is 25.
C15_QueuePositionFormula ==
    \A c \in call : \A l \in c.locals :
        LET ordinal == LetterOrdinal(Upper(c.req.employer_first_letter))
            day == DayOf(c.req.submit_date)
            q == l.raw_queue_position
        IN  /\ q[1] * 750 =
                   q[2] * (750 * l.cases_before_month
                           + l.same_month_total * (24 * ordinal + 5 * (day - 1)))
            /\ (/\ l.cases_before_month = 10000
                /\ l.same_month_total = 5000
                /\ day = 15
                /\ ordinal = 0
                /\ l.weekly_rate = <<2900, 1>>)
                   => q = <<31400, 3>> /\ l.remaining_days = 25

\* the call of the test fixture
C15_Witness ==
    \E c \in call : \E l \in c.locals : \E b \in c.response.body :
        /\ l.cases_before_month = 10000
        /\ l.same_month_total = 5000
        /\ DayOf(c.req.submit_date) = 15
        /\ LetterOrdinal(Upper(c.req.employer_first_letter)) = 0
        /\ l.weekly_rate = <<2900, 1>>
        /\ l.raw_queue_position = <<31400, 3>>
        /\ b.raw_queue_position = 10466
        /\ b.remaining_days = 25

\* C16: casesBeforeMonth is the sum of count over exactly the ANALYST REVIEW
\* rows of a strictly earlier (year, month) than the submission's, months
\* ordered January = 1 ... December = 12; it is 0 when there is no such row.
C16_CasesBeforeMonthSum ==
    \A c \in call : \A l \in c.locals :
        l.cases_before_month =
            SumOver({r \in monthly_status :
                        /\ r.status = "ANALYST REVIEW"
                        /\ EarlierYearMonth(r.year, MonthOrdinal(r.month),
                                            YearOf(c.req.submit_date),
                                            MonthOf(c.req.submit_date))},
                    "count")

\* a submission of March 2024 with rows of December 2023, of the same month,
\* of a later month and of another status in the store
C16_Witness ==
    \E c \in call : \E l \in c.locals :
        /\ YearOf(c.req.submit_date) = 2024
        /\ MonthOf(c.req.submit_date) = 3
        /\ \E r \in monthly_status :
              r.status = "ANALYST REVIEW" /\ r.year = 2023 /\ r.month = "December"
        /\ \E r \in monthly_status :
              r.status = "ANALYST REVIEW" /\ r.year = 2024 /\ r.month = "March"
        /\ \E r \in monthly_status :
              r.status = "ANALYST REVIEW" /\ r.year = 2024 /\ r.month = "April"
        /\ \E r \in monthly_status :
              r.status # "ANALYST REVIEW" /\ r.year = 2024 /\ r.month = "February"
        /\ l.cases_before_month = 1300

\* C17: daysInQueueAlready = max(0, today - submitDate) is reported and
\* never subtracted: remainingDays is the whole of int(7 * queuePosition /
\* weeklyRate), estimatedDays = daysInQueueAlready + remainingDays and
\* completionDate = today + remainingDays.
C17_ElapsedDaysNotSubtracted ==
    \A c \in call : \A l \in c.locals : \A b \in c.response.body :
        /\ b.days_already_in_queue =
               (IF today > c.req.submit_date THEN today - c.req.submit_date ELSE 0)
        /\ RPos(l.weekly_rate)
               => b.remaining_days =
                      IntOf(RMul(RDiv(l.raw_queue_position, l.weekly_rate), Rat(7, 1)))
        /\ b.estimated_days = b.days_already_in_queue + b.remaining_days
        /\ b.estimated_completion_date = today + b.remaining_days

\* a case that has waited longer than the days it has left
C17_Witness ==
    \E c \in call : \E b \in c.response.body :
        /\ c.req.submit_date < today
        /\ b.days_already_in_queue = today - c.req.submit_date
        /\ b.remaining_days > 0
        /\ b.remaining_days < b.days_already_in_queue
        /\ b.estimated_days = b.days_already_in_queue + b.remaining_days
        /\ b.estimated_completion_date = today + b.remaining_days

----------------------------------------------------------------------------
(* Claims C18 - C20: the percentile row and the audit table *)

\* C18: two calls with the same submitDate, letter and today, on stores that
\* differ only in the percentile values of the latest processing_times row,
\* get the same completionDate, upperBoundDate, remainingDays, estimatedDays
\* and queuePosition.
C18_IndependentOfPercentiles ==
    \A p \in previous : \A c \in call : \A l \in c.locals :
        p.req = c.req
            => /\ p.locals.estimated_completion_date = l.estimated_completion_date
               /\ p.locals.upper_bound_date = l.upper_bound_date
               /\ p.locals.remaining_days = l.remaining_days
               /\ p.locals.total_journey_days = l.total_journey_days
               /\ p.locals.raw_queue_position = l.raw_queue_position

\* two calls with the same request that read different percentiles
C18_Witness ==
    \E p \in previous : \E c \in call : \E l \in c.locals :
        /\ p.req = c.req
        /\ p.locals.base_days # l.base_days
        /\ p.locals.upper_base_days # l.upper_base_days
        /\ l.remaining_days > 0
        /\ p.locals.upper_bound_date = l.upper_bound_date
        /\ p.locals.estimated_completion_date = l.estimated_completion_date

\* the rows of prediction_requests before a step are the same rows after it
RowsKept ==
    /\ Len(prediction_requests') >= Len(prediction_requests)
    /\ \A i \in 1..Len(prediction_requests) :
          prediction_requests'[i] = prediction_requests[i]

\* the handler got past its INSERT
ReachedStore(c) == Admitted(c) /\ c.fail \notin {"create_table", "insert"}

\* C19: a call that reaches the store adds exactly one record to
\* prediction_requests and any other call none; the record that gets the
\* result is the one with the id the INSERT returned, which is the
\* request_id of the response, and it keeps the input fields of the request;
\* no other record is changed or deleted.
C19_AuditAppendOnly ==
    [][/\ RowsKept
       /\ served' = served + 1
            => \A c \in call' :
                 IF ReachedStore(c)
                 THEN /\ Len(prediction_requests') = Len(prediction_requests) + 1
                      /\ LET row == prediction_requests'[Len(prediction_requests')]
                         IN  /\ row.id = Len(prediction_requests')
                             /\ \A i \in 1..Len(prediction_requests) :
                                   prediction_requests[i].id # row.id
                             /\ row.submit_date = c.req.submit_date
                             /\ row.employer_first_letter =
                                    Upper(c.req.employer_first_letter)
                             /\ row.case_number = c.req.case_number
                             /\ \A b \in c.response.body :
                                   /\ b.request_id = row.id
                                   /\ row.estimated_completion_date =
                                          {b.estimated_completion_date}
                                   /\ row.estimated_days = {b.estimated_days}
                 ELSE prediction_requests' = prediction_requests
      ]_vars

\* a second record gets its result while the first keeps its own
C19_Witness ==
    \E c \in call : \E b \in c.response.body :
        /\ Len(prediction_requests) = 2
        /\ b.request_id = 2
        /\ prediction_requests[2].id = 2
        /\ prediction_requests[2].estimated_days = {b.estimated_days}
        /\ prediction_requests[1].id = 1
        /\ prediction_requests[1].estimated_days # {}
        /\ prediction_requests[1].estimated_days # prediction_requests[2].estimated_days
        /\ prediction_requests[1].submit_date # prediction_requests[2].submit_date

\* C20: once a call has answered, with an estimate or with an error, no
\* record of prediction_requests has a NULL result field.
C20_RecordsCompleted ==
    \A c \in call : \A i \in 1..Len(prediction_requests) :
        /\ prediction_requests[i].estimated_completion_date # {}
        /\ prediction_requests[i].estimated_days # {}
        /\ prediction_requests[i].confidence_level # {}

----------------------------------------------------------------------------
(* Claims C21 - C25: concurrent calls, the other operations, reCAPTCHA *)

\* C21: for every interleaving of two calls on an unchanged store, a call
\* that has returned answers what the call alone answers, its own audit
\* record holds that result, and a record whose call has not reached its
\* UPDATE still has no result: no call writes to the record of another.
C21_ConcurrentCallsIndependent ==
    \A w \in Workers :
        LET p == proc[w]
        IN  /\ \A v \in Workers \ {w} :
                  p.request_id # 0 => proc[v].request_id # p.request_id
            /\ p.pc \in {"inserted", "read"}
                  => prediction_requests[p.request_id] =
                         InsertedRow(p.request_id, RequestOf(w),
                                     Upper(RequestOf(w).employer_first_letter), today)
            /\ p.pc = "done"
                  => LET req == RequestOf(w)
                         alone == Response(req, TRUE, "none", p.request_id, today)
                     IN  /\ p.response = {alone}
                         /\ \A b \in alone.body :
                              /\ prediction_requests[p.request_id].estimated_completion_date
                                     = {b.estimated_completion_date}
                              /\ prediction_requests[p.request_id].estimated_days
                                     = {b.estimated_days}
                              /\ prediction_requests[p.request_id].submit_date
                                     = req.submit_date
                         /\ alone.body = {}
                              => prediction_requests[p.request_id].estimated_days = {}

\* a call that started second returns first, with another estimate than the
\* call still under way would get
C21_Witness ==
    \E w \in Workers : \E v \in Workers :
        /\ proc[w].pc = "done"
        /\ proc[v].pc = "read"
        /\ proc[v].request_id < proc[w].request_id
        /\ \E r \in proc[w].response : \E b \in r.body : \E l \in proc[v].locals :
              b.estimated_days # l.total_journey_days
        /\ prediction_requests[proc[v].request_id].estimated_days = {}

\* C22: with no percentile data (no processing_times row, no prediction
\* model) the estimate from the date alone is completionDate = submitDate +
\* 150 and upperBoundDate = submitDate + 300.
C22_PercentileOnlyDefaults ==
    \A r \in simple :
        (processing_times = {} /\ prediction_model = {})
            => /\ r.estimated_completion_date = r.submit_date + DEFAULT_MEDIAN_DAYS
               /\ IF "upper_bound_date" \in DOMAIN r
                  THEN r["upper_bound_date"] = r.submit_date + DEFAULT_UPPER_DAYS
                  ELSE FALSE

\* C23: looking up a stored prediction request by an id that no row has
\* answers 404 "Prediction request not found", never 500, when the statement
\* itself does not fail; an id that a row has answers 200 with that row.
\* (Stated on the step of the lookup: the table is the one the lookup read.)
C23_MissingRequestIs404 ==
    [][UNCHANGED predictionVars =>
        \A r \in lookup' :
            ~r.db_error =>
                IF \E i \in DOMAIN prediction_requests :
                       prediction_requests[i].id = r.request_id
                THEN r.status = 200 /\ r.body # {}
                ELSE /\ r.status = 404
                     /\ r.detail = <<"Prediction request not found">>
                     /\ r.body = {}]_vars

C23_Witness ==
    /\ prediction_requests # <<>>
    /\ \E r \in lookup :
          /\ ~r.db_error
          /\ r.status = 404
          /\ \A i \in DOMAIN prediction_requests :
                prediction_requests[i].id # r.request_id

\* C24: every accessor helper of the dashboard catches its own errors: a
\* call never raises, and a call in which a statement failed returns the
\* helper's empty, zero or default value.
C24_AccessorsNeverRaise ==
    \A r \in accessor :
        /\ ~r.raised
        /\ r.db_error =>
              r.value =
                  IF r.name \in ListAccessors THEN <<>>
                  ELSE IF r.name = "get_current_backlog" THEN 0
                  ELSE IF r.name = "get_todays_progress_data"
                  THEN [new_cases |-> 0, processed_cases |-> 0,
                        new_cases_change |-> 0, processed_cases_change |-> 0,
                        date |-> today, current_backlog |-> 0,
                        comparison_days |-> r.comparison_days,
                        comparison_period |-> "Historical Average",
                        period_label |-> "Today"]
                  ELSE [lower_estimate_days |-> {}, median_days |-> {},
                        upper_estimate_days |-> {}, as_of_date |-> {}]

C24_Witness ==
    \E r \in accessor :
        /\ r.db_error
        /\ r.name = "get_current_backlog"
        /\ summary_stats # {}
        /\ r.value = 0

\* C25: reCAPTCHA verification comes before any processing: a call whose
\* token verify_recaptcha rejects answers 400, issues no statement, computes
\* no estimate, and leaves prediction_requests and the aggregates as they were.
C25_RecaptchaBeforeProcessing ==
    [][served' # served =>
        \A c \in call' :
            (ValidRequest(c.req) /\ ~c.recaptcha_ok) =>
                /\ c.response.status = 400
                /\ c.response.body = {}
                /\ c.statements = <<>>
                /\ c.locals = {}
                /\ prediction_requests' = prediction_requests
                /\ storeVars' = storeVars]_vars

C25_Witness ==
    \E c \in call :
        /\ ValidRequest(c.req)
        /\ ~c.recaptcha_ok
        /\ c.response.status = 400
        /\ c.statements = <<>>

----------------------------------------------------------------------------
(* Claims C26 - C28: the rate limiter *)

\* the requests of one ip to one endpoint let through with a request time in
\* the `window` seconds that begin at `from`
AdmittedWithin(ip, endpoint, from) ==
    {i \in DOMAIN admitted[ip][endpoint] :
        /\ admitted[ip][endpoint][i] >= from
        /\ admitted[ip][endpoint][i] < from + Limits[endpoint].window}

\* C26: in every interleaving of is_rate_limited calls, concurrent threads
\* for the same IP included, the requests admitted for one (IP, endpoint)
\* pair within any window of 60 seconds never exceed the endpoint's limit.
C26_AdmittedWithinLimit ==
    \A ip \in IPs, endpoint \in LimitedEndpoints :
        \A i \in DOMAIN admitted[ip][endpoint] :
            Cardinality(AdmittedWithin(ip, endpoint, admitted[ip][endpoint][i]))
                <= Limits[endpoint].requests

\* the request time of the oldest of the last max_requests requests let
\* through, if that many were let through
OldestCounted(ip, endpoint) ==
    LET h == admitted[ip][endpoint]
        max_requests == Limits[endpoint].requests
    IN  IF Len(h) < max_requests THEN {} ELSE {h[Len(h) - max_requests + 1]}

\* the step on which thread t decides, and finds the limit reached
Rejects(t) == thread[t].pc = "count" /\ thread'[t].pc = "idle"

\* the step on which thread t decides
Decides(t) == thread[t].pc = "count" /\ thread'[t].pc # "count"

\* C27 as stated: a rejected request is not recorded, its retry_after is
\* between 1 and window + 1, and once `window` seconds have passed since the
\* oldest admitted request that still counts, the next request is admitted.
C27_AdmittedOnceWindowPassed ==
    [][\A t \in Threads :
        /\ Rejects(t) =>
              /\ requests' = requests
              /\ admitted' = admitted
              /\ \A r \in limited' :
                    /\ r.status = 429
                    /\ r.retry_after >= 1
                    /\ r.retry_after <= Limits[r.endpoint].window + 1
        /\ Decides(t) =>
              \A oldest \in OldestCounted(thread[t].ip, thread[t].endpoint) :
                  thread[t].current_time - oldest
                        >= Limits[thread[t].endpoint].window
                      => thread'[t].pc = "append"]_vars

\* C27, amended: the same, with the next request admitted once MORE than
\* `window` seconds have passed since the oldest admitted request that still
\* counts (a request made exactly `window` seconds after it is rejected, with
\* retry_after = 1).
C27_AdmittedAfterWindow ==
    [][\A t \in Threads :
        /\ Rejects(t) =>
              /\ requests' = requests
              /\ admitted' = admitted
              /\ \A r \in limited' :
                    /\ r.status = 429
                    /\ r.retry_after >= 1
                    /\ r.retry_after <= Limits[r.endpoint].window + 1
        /\ Decides(t) =>
              /\ OldestCounted(thread[t].ip, thread[t].endpoint) = {}
                    => thread'[t].pc = "append"
              /\ \A oldest \in OldestCounted(thread[t].ip, thread[t].endpoint) :
                    thread[t].current_time - oldest
                          > Limits[thread[t].endpoint].window
                        => thread'[t].pc = "append"]_vars

C27_Witness ==
    \E ip \in IPs, endpoint \in LimitedEndpoints :
        LET h == admitted[ip][endpoint]
        IN  /\ Len(h) = Limits[endpoint].requests + 1
            /\ h[Len(h)] - h[1] > Limits[endpoint].window
            /\ \E r \in limited :
                  r.status = 200 /\ r.endpoint = endpoint /\ r.current_time = h[Len(h)]

\* C28: after block_ip(ip, duration) no request of that IP to a limited
\* endpoint is admitted until `duration` seconds after the call.
C28_BlockedForDuration ==
    [][\A b \in blocked :
          clock' < b.at + b.duration => admitted'[b.ip] = admitted[b.ip]]_vars

----------------------------------------------------------------------------
(* Claims C29 - C30: the dashboard cache *)

\* the step is a request of GET /data/dashboard
DashboardStep ==
    /\ clock' = clock
    /\ dashboard' # {}
    /\ \A r \in dashboard' : r.op = "dashboard"
    /\ <<dashboard_cache', last_cache_reset', dashboard'>>
           # <<dashboard_cache, last_cache_reset, dashboard>>

\* every hit recorded was served from an entry of its key computed at most
\* CACHE_TIMEOUT seconds before, without a read; every entry of the cache was
\* computed since the last reset
ServedFresh ==
    /\ \A r \in dashboard :
          (r.op = "dashboard" /\ r.hit) =>
              /\ r.reads = {}
              /\ r.status = 200
              /\ r.result # {}
              /\ \A c \in r.result :
                    /\ r.served_at - c.computed_at <= CACHE_TIMEOUT
                    /\ r.served_at - c.computed_at >= 0
                    /\ CacheKey(c.days, c.data_type) = r.cache_key
    /\ \A key \in DOMAIN dashboard_cache :
          /\ "dashboard" \in DOMAIN last_cache_reset
          /\ dashboard_cache[key].computed_at >= last_cache_reset["dashboard"]
          /\ clock >= dashboard_cache[key].computed_at

\* C29: after any sequence of dashboard requests and clear-cache calls, a
\* response served from the cache was computed at most CACHE_TIMEOUT seconds
\* before it is served; a cache hit returns the stored result of its key and
\* reads no table; and a request that arrives more than CACHE_TIMEOUT seconds
\* after the last reset clears every cached key before it answers.
C29_CacheFreshness ==
    [][/\ ServedFresh'
       /\ DashboardStep =>
            \A r \in dashboard' :
                /\ r.hit => /\ dashboard_cache' = dashboard_cache
                            /\ r.result = {dashboard_cache[r.cache_key]}
                /\ ("dashboard" \in DOMAIN last_cache_reset
                        /\ clock - last_cache_reset["dashboard"] > CACHE_TIMEOUT)
                      => /\ ~r.hit
                         /\ r.reset
                         /\ DOMAIN dashboard_cache' \subseteq {r.cache_key}
                         /\ last_cache_reset'["dashboard"] = clock]_vars

C29_Witness ==
    \E r \in dashboard :
        /\ r.op = "dashboard"
        /\ r.hit
        /\ \E c \in r.result : r.served_at - c.computed_at = CACHE_TIMEOUT

\* C30: POST /data/clear-cache empties the cache and the reset timestamps,
\* the next dashboard request is a miss, and cleared_items is the number of
\* cache entries the call removed.
C30_ClearedItemsCounted ==
    [][/\ \A r \in dashboard' :
            r.op = "clear-cache" =>
                /\ dashboard_cache' = <<>>
                /\ last_cache_reset' = <<>>
                /\ r.cleared_items = Cardinality(DOMAIN dashboard_cache)
       /\ (DashboardStep /\ \A r \in dashboard : r.op = "clear-cache")
              => \A r \in dashboard' : ~r.hit]_vars

====
